---- MODULE Spec2Model ----
(***************************************************************************)
(* State-machine model of MindRSTrainer (modules/trainer/mind_rs_trainer.py) *)
(* : the training epoch loop with its interval and end-of-epoch            *)
(* validations, and one validation pass (_valid_epoch) with its            *)
(* evaluation-mode decision, impression loop, weight accumulator and       *)
(* weight-dump file.                                                       *)
(*                                                                         *)
(* Two specifications share the variables:                                 *)
(*   SpecTrain  one call of _train_epoch; a validation is one step whose   *)
(*              effects on the trainer (log, monitor, mode, metrics) are   *)
(*              kept and whose inside is SpecValid's business.             *)
(*   SpecValid  successive calls of _valid_epoch on one trainer.           *)
(* Floating point: valid_interval is a fraction <<num, den>>; for the      *)
(* values of Intervals and every length up to 200 the float product        *)
(* length * valid_interval has the same ceiling as the exact product.      *)
(***************************************************************************)
EXTENDS Integers, Sequences, FiniteSets, TLC

\* ---------------------------------------------------------------- bounds
MaxLen == 4        \* training loaders of 1..MaxLen batches (and the 100-batch one)
MaxImp == 2        \* impressions in the validation set
MaxBs == 2         \* impression_batch_size
MaxSaved == 1      \* saved_weight_num
MaxPasses == 2     \* validation passes on one trainer
MaxHist == 3       \* history length of the user encoder's input
MaxDim == 2        \* batch size, embedding_dim and head_num of the BATM model
MaxProcs == 2      \* worker processes of a multi-process run

\* ------------------------------------------------------------- variables
VARIABLES
    \* configuration and collaborators, fixed by construction
    epoch,               \* the argument of _train_epoch
    length,              \* len(self.train_loader)
    valid_interval,      \* self.valid_interval, <<num, den>>
    len_epoch,           \* self.len_epoch
    entropy_constraint,  \* self.entropy_constraint / config["entropy_constraint"]
    topic_variant,       \* self.topic_variant / config["topic_variant"]
    lr_scheduler,        \* TRUE iff self.lr_scheduler is not None
    \* _train_epoch
    pc,                  \* position in _train_epoch
    batch_idx,           \* index of the batch being processed
    model_mode,          \* "train" | "eval" (model.train() / model.eval())
    train_metrics,       \* number of losses recorded since the last reset
    writer_step,         \* last self.writer.set_step
    backward_loss,       \* terms of the loss given to accelerator.backward
    forward_mode,        \* the model's mode at the last training forward pass
    opt_steps,           \* optimizer.step() calls in this epoch
    lr_steps,            \* lr_scheduler.step() calls in this epoch
    valid_calls,         \* the calls of _validation, in order
    monitor_calls,       \* the logs handed to self._monitor, in order
    ret,                 \* the value _train_epoch returned
    \* configuration read by _valid_epoch
    valid_method,        \* config["valid_method"]
    return_weight,       \* config["return_weight"]
    saved_weight_num,    \* config["saved_weight_num"]
    impression_bs,       \* config["impression_batch_size"]
    topic_eval,          \* evaluate_topic_by_epoch and topic_evaluation_method
    is_main_process,     \* self.accelerator.is_main_process
    pad_extra,           \* columns the collate function pads beyond the longest row
    valid_set,           \* the impressions of the validation set, in loader order
    \* _valid_epoch
    vpc,                 \* position in _valid_epoch
    passes,              \* calls of _valid_epoch that have returned
    model_outputs,       \* the names of the model's outputs (keys of out_dict)
    news_embeds,         \* "none" | "cached"
    embeds_call,         \* "not_called" | "ok" | "KeyError" | "RuntimeError"
    imp_set_cache,       \* the cache ImpressionDataset was built with
    vi,                  \* index of the validation batch being processed
    batches_run,         \* model forward passes of this validation pass
    result_dict,         \* impression index -> metric name -> value
    weight_dict,         \* field name -> sequence of per-impression entries
    metric_calls,        \* the (label, pred) arrays given to the metric functions
    eval_result,         \* the log _valid_epoch returns
    barrier_passed,      \* accelerator.wait_for_everyone() was called
    weight_file,         \* the weight-dump file {model_dir}/weight/{head_num}.pt
    last_save,           \* what the last torch.save merged: old file, new dump
    \* BATMRSModel (news_recommendation/models/nrs/batm.py)
    variant_name,        \* self.variant_name
    head_num,            \* self.head_num
    history_news,        \* input_feat["history_news"]: shape <<N, L, E>>
    mpc,                 \* position in user_encoder
    y,                   \* the local y of user_encoder: shape and layers applied
    user_vector,         \* the value user_encoder returned
    \* _valid_epoch run by every worker process of a multi-process run
    num_processes,       \* self.accelerator.num_processes
    ppc,                 \* per process: position in _valid_epoch
    p_vi,                \* per process: vi, the index of the batch in its loader
    p_result_dict,       \* per process: result_dict
    p_weight_dict,       \* per process: weight_dict
    p_eval_result,       \* per process: eval_result
    gather_buf,          \* per process: the mapping it handed to gather_dict
    topic_done,          \* per process: topic_evaluation has returned
    dump_file,           \* the weight file, shared by the processes
    file_ops             \* the loads and saves of the weight file, in order

cfgVars == <<epoch, length, valid_interval, len_epoch, entropy_constraint,
             topic_variant, lr_scheduler>>
trainVars == <<pc, batch_idx, model_mode, train_metrics, writer_step,
               backward_loss, forward_mode, opt_steps, lr_steps, valid_calls, monitor_calls, ret>>
vcfgVars == <<valid_method, return_weight, saved_weight_num, impression_bs,
              topic_eval, is_main_process, pad_extra, valid_set>>
validVars == <<vpc, passes, model_outputs, news_embeds, embeds_call, imp_set_cache,
               vi, batches_run, result_dict, weight_dict, metric_calls,
               eval_result, barrier_passed, weight_file, last_save>>
modelVars == <<variant_name, head_num, history_news, mpc, y, user_vector>>
distVars == <<num_processes, ppc, p_vi, p_result_dict, p_weight_dict, p_eval_result,
              gather_buf, topic_done, dump_file, file_ops>>
\* what _train_epoch's own statements never touch
validSide == <<vcfgVars, validVars, modelVars, distVars>>
\* what _valid_epoch's own statements never touch (model_mode is shared)
trainSide == <<epoch, length, valid_interval, len_epoch, lr_scheduler, pc, batch_idx,
               train_metrics, writer_step, backward_loss, forward_mode, opt_steps,
               lr_steps, valid_calls, monitor_calls, ret, modelVars, distVars>>
vars == <<cfgVars, trainVars, vcfgVars, validVars, modelVars, distVars>>

\* ---------------------------------------------------------------- values
Intervals == {<<1, 10>>, <<1, 5>>, <<1, 2>>, <<1, 1>>}
TopicVariants == {"base", "variational_topic"}
Lengths == (1..MaxLen) \cup {100}
NoLog == [epoch |-> 0, step |-> 0, val |-> 0]

\* math.ceil(length * self.valid_interval)
ceil(len, interval) == (len * interval[1] + interval[2] - 1) \div interval[2]

\* LossTerms with line 66 active: the KL term added for variational_topic
LossTerms_WithKL(entropy, variant) ==
    {"criterion"} \cup (IF entropy THEN {"entropy"} ELSE {})
                  \cup (IF variant = "variational_topic" THEN {"kl_divergence"} ELSE {})

\* loss = criterion(...); loss += alpha * entropy when entropy_constraint; the
\* KL term is only written to the progress bar (line 66 is commented out).
LossTerms(entropy, variant) ==
    {"criterion"} \cup (IF entropy THEN {"entropy"} ELSE {})

\* IntervalReached without its second conjunct
IntervalReached_NoEndGuard(idx, len, interval) ==
    (idx + 1) % ceil(len, interval) = 0

\* (batch_idx + 1) % ceil(length * valid_interval) == 0 and (batch_idx + 1) < length
IntervalReached(idx, len, interval) ==
    /\ (idx + 1) % ceil(len, interval) = 0
    /\ (idx + 1) < len

\* if batch_idx == self.len_epoch: break
EarlyStopReached(idx, maxstep) == idx = maxstep

\* The log _validation builds: {"epoch/step": f"{epoch}/{batch_idx}", "val_*": ...};
\* val stands for the result of the n-th _valid_epoch call of the epoch.
ValidationLog(e, idx, n) == [epoch |-> e, step |-> idx, val |-> n]

\* model.eval() (line 96): the mode _valid_epoch runs the model in
model_eval == "eval"

\* _validation without line 39 (self.model.train())
_validation_NoTrainMode(idx, do_monitor, ok, next_pc, site) ==
    LET log == ValidationLog(epoch, idx, Len(valid_calls) + 1)
        call == [site |-> site, log |-> log, monitor |-> do_monitor,
                 at_step |-> opt_steps, at_lr |-> lr_steps,
                 eval_mode |-> model_eval, returned |-> ok]
    IN  /\ valid_calls' = Append(valid_calls, call)
        /\ IF ok
           THEN /\ monitor_calls' = IF do_monitor THEN Append(monitor_calls, log)
                                                  ELSE monitor_calls
                /\ model_mode' = model_eval
                /\ train_metrics' = 0
                /\ pc' = next_pc
           ELSE /\ monitor_calls' = monitor_calls
                /\ model_mode' = model_eval
                /\ train_metrics' = train_metrics
                /\ pc' = "raised"

\* _validation(epoch, batch_idx, do_monitor): the log, the monitor call when
\* asked, model.train(), train_metrics.reset().  _valid_epoch switches the
\* model to evaluation mode while it runs; a failure inside it propagates.
\* site names the calling line ("interval": line 78, "end": line 81).
_validation(idx, do_monitor, ok, next_pc, site) ==
    LET log == ValidationLog(epoch, idx, Len(valid_calls) + 1)
        call == [site |-> site, log |-> log, monitor |-> do_monitor,
                 at_step |-> opt_steps, at_lr |-> lr_steps,
                 eval_mode |-> model_eval, returned |-> ok]
    IN  /\ valid_calls' = Append(valid_calls, call)
        /\ IF ok
           THEN /\ monitor_calls' = IF do_monitor THEN Append(monitor_calls, log)
                                                  ELSE monitor_calls
                /\ model_mode' = "train"
                /\ train_metrics' = 0
                /\ pc' = next_pc
           ELSE /\ monitor_calls' = monitor_calls
                /\ model_mode' = model_eval
                /\ train_metrics' = train_metrics
                /\ pc' = "raised"

\* ------------------------------------------------- _valid_epoch: values
ValidMethods == {"fast_evaluation", "slow_evaluation"}
CanLens == {2, 3}
PadExtras == {0, 1}
MetricFuncs == {"hits", "positives"}
\* the keys of saved_items (lines 127-132)
SavedItems == {"impression_index", "results", "label", "candidate_index",
               "history_index", "pred_score"}
\* the out_dict key sets of the models: a plain one and one with attention weights
OutputSets == {{"pred"}, {"pred", "candidate_weight", "topic_weight"}}
\* "weight" in name, "candidate" in name
ContainsWeight(name) == name \in {"candidate_weight", "topic_weight"}
ContainsCandidate(name) == name \in {"candidate_weight"}
EmptyDict == [k \in {} |-> <<>>]
NoFile == [exists |-> FALSE, content |-> EmptyDict]
NoSave == [merged |-> FALSE, old |-> EmptyDict, new |-> EmptyDict]
Min(a, b) == IF a < b THEN a ELSE b

\* the validation sets: 1..MaxImp impressions, index = place in the dataset
Impression(i, can_len) ==
    [impression_index |-> i, candidate_length |-> can_len,
     history_length |-> (i % 2) + 1]
ValidSets ==
    UNION {{[i \in 1..n |-> Impression(i, lens[i])] : lens \in [1..n -> CanLens]}
           : n \in 1..MaxImp}

\* row[:n] for n >= 0
Slice(row, n) == SubSeq(row, 1, Min(n, Len(row)))

\* len(valid_loader): DataLoader(imp_set, impression_bs)
NumBatches(set, bs) == (Len(set) + bs - 1) \div bs
\* the impressions of batch b (0-based), in order
BatchOf(set, bs, b) == SubSeq(set, b * bs + 1, Min((b + 1) * bs, Len(set)))

\* the collate function pads every row of a batch to a common width; padded
\* places hold -1, a value no label, score or index takes
CanWidth(batch, extra) ==
    LET m == CHOOSE x \in {batch[k].candidate_length : k \in 1..Len(batch)} :
                 \A k \in 1..Len(batch) : batch[k].candidate_length <= x
    IN  m + extra
HisWidth(batch, extra) ==
    LET m == CHOOSE x \in {batch[k].history_length : k \in 1..Len(batch)} :
                 \A k \in 1..Len(batch) : batch[k].history_length <= x
    IN  m + extra
LabelRow(imp, width) ==
    [j \in 1..width |-> IF j <= imp.candidate_length
                        THEN (imp.impression_index + j) % 2 ELSE -1]
CandidateRow(imp, width) ==
    [j \in 1..width |-> IF j <= imp.candidate_length
                        THEN imp.impression_index * 10 + j ELSE -1]
HistoryRow(imp, width) ==
    [j \in 1..width |-> IF j <= imp.history_length
                        THEN imp.impression_index * 10 + 5 + j ELSE -1]
\* out_dict["pred"] of the model as trained when the pass runs (version)
PredRow(imp, width, version) ==
    [j \in 1..width |-> IF j <= imp.candidate_length
                        THEN (imp.impression_index * j + version) % 2 ELSE -1]
\* out_dict[name] for a name holding "weight": one weight per padded place
WeightRow(name, width) == [j \in 1..width |-> 1]

\* the metric functions: pure functions of (label, pred)
RECURSIVE CountOnes(_)
CountOnes(a) == IF a = <<>> THEN 0
                ELSE (IF Head(a) = 1 THEN 1 ELSE 0) + CountOnes(Tail(a))
Metric(m, label, pred) ==
    IF m = "hits"
    THEN CountOnes([j \in 1..Min(Len(label), Len(pred)) |-> label[j] * pred[j]])
    ELSE CountOnes(label)

\* FastEligible without the entropy_constraint test
FastEligible_IgnoresEntropy(method, weight, entropy, variant) ==
    /\ method = "fast_evaluation"
    /\ ~weight
    /\ ~(variant = "variational_topic")

\* valid_method == "fast_evaluation" and not return_weight and
\* not entropy_constraint and not topic_variant == "variational_topic"
FastEligible(method, weight, entropy, variant) ==
    /\ method = "fast_evaluation"
    /\ ~weight
    /\ ~entropy
    /\ ~(variant = "variational_topic")

\* except KeyError or RuntimeError: the expression is KeyError
Caught(exc) == exc = "KeyError"

\* if vi >= saved_weight_num and return_weight: break
BreakReached(idx, cap, weight) == idx >= cap /\ weight

\* MetricArgs on the rows as collated, not truncated
MetricArgs_Padded(imp, cwidth, version) ==
    [index |-> imp.impression_index,
     label |-> LabelRow(imp, cwidth),
     pred |-> PredRow(imp, cwidth, version)]

\* label[i][:can_len[i]], pred[i][:can_len[i]]: the arrays of impression imp
MetricArgs(imp, cwidth, version) ==
    [index |-> imp.impression_index,
     label |-> Slice(LabelRow(imp, cwidth), imp.candidate_length),
     pred |-> Slice(PredRow(imp, cwidth, version), imp.candidate_length)]

\* {m.__name__: m(label, pred) for m in self.metric_funcs}
Results(args) == [m \in MetricFuncs |-> Metric(m, args.label, args.pred)]

\* the entry of one impression under each field of weight_dict (lines 127-141)
WeightEntry(name, imp, cwidth, hwidth, version) ==
    LET args == MetricArgs(imp, cwidth, version) IN
    CASE name = "impression_index" -> imp.impression_index
      [] name = "results" -> Results(args)
      [] name = "label" -> args.label
      [] name = "candidate_index" -> Slice(CandidateRow(imp, cwidth), imp.candidate_length)
      [] name = "history_index" -> Slice(HistoryRow(imp, hwidth), imp.history_length)
      [] name = "pred_score" -> args.pred
      [] OTHER -> IF ContainsCandidate(name)
                  THEN Slice(WeightRow(name, cwidth), imp.candidate_length)
                  ELSE Slice(WeightRow(name, hwidth), imp.history_length)

\* the fields a batch appends to: saved_items and the outputs named "...weight..."
WeightFields(outs) == SavedItems \cup {name \in outs : ContainsWeight(name)}

\* AppendBatch with the loop over out_dict (lines 135-141) run once per batch,
\* for the batch's last impression, instead of once per impression
AppendBatch_WeightsOncePerBatch(wd, batch, outs, cwidth, hwidth, version) ==
    LET fields == IF batch = <<>> THEN {} ELSE WeightFields(outs) IN
    [name \in (DOMAIN wd) \cup fields |->
        (IF name \in DOMAIN wd THEN wd[name] ELSE <<>>) \o
        (IF name \in SavedItems /\ name \in fields
         THEN [k \in 1..Len(batch) |->
                  WeightEntry(name, batch[k], cwidth, hwidth, version)]
         ELSE IF name \in fields
         THEN <<WeightEntry(name, batch[Len(batch)], cwidth, hwidth, version)>>
         ELSE <<>>)]

\* weight_dict after the appends of one batch (a defaultdict of lists)
AppendBatch(wd, batch, outs, cwidth, hwidth, version) ==
    LET fields == IF batch = <<>> THEN {} ELSE WeightFields(outs) IN
    [name \in (DOMAIN wd) \cup fields |->
        (IF name \in DOMAIN wd THEN wd[name] ELSE <<>>) \o
        (IF name \in fields
         THEN [k \in 1..Len(batch) |->
                  WeightEntry(name, batch[k], cwidth, hwidth, version)]
         ELSE <<>>)]

\* result_dict after the impressions of one batch
StoreResults(rd, batch, cwidth, version) ==
    LET idx == {batch[k].impression_index : k \in 1..Len(batch)}
        at(i) == CHOOSE k \in 1..Len(batch) : batch[k].impression_index = i
    IN  [i \in (DOMAIN rd) \cup idx |->
            IF i \in idx THEN Results(MetricArgs(batch[at(i)], cwidth, version))
                         ELSE rd[i]]

\* gather_dict with one process: the mapping itself
gather_dict(rd) == rd

\* np.round(x, 4) of the mean sum/count, as an integer number of 1/10000
\* (half to even)
Round4(sum, count) ==
    LET q == (sum * 10000) \div count
        r == (sum * 10000) % count
    IN  IF 2 * r > count \/ (2 * r = count /\ q % 2 = 1) THEN q + 1 ELSE q
RECURSIVE SumOver(_, _, _)
SumOver(rd, keys, m) ==
    IF keys = {} THEN 0
    ELSE LET i == CHOOSE x \in keys : TRUE
         IN  rd[i][m] + SumOver(rd, keys \ {i}, m)
\* dict(np.round(pd.DataFrame.from_dict(result_dict, orient="index").mean(), 4))
Average(rd) ==
    IF DOMAIN rd = {} THEN EmptyDict
    ELSE [m \in MetricFuncs |-> Round4(SumOver(rd, DOMAIN rd, m), Cardinality(DOMAIN rd))]

\* MergeWeights with the old file's list first: old_weights[key].extend(new)
MergeWeights_OldFirst(wd, old) == [name \in DOMAIN wd |-> old[name] \o wd[name]]

\* the file's content after lines 154-158: every key of weight_dict, its list
\* extended by the old file's list
MergeWeights(wd, old) == [name \in DOMAIN wd |-> wd[name] \o old[name]]

\* the state of a trainer on which no validation pass has run
ValidIdle ==
    /\ valid_method = "fast_evaluation"
    /\ return_weight = FALSE
    /\ saved_weight_num = 0
    /\ impression_bs = 1
    /\ topic_eval = FALSE
    /\ is_main_process = TRUE
    /\ pad_extra = 0
    /\ valid_set = <<Impression(1, 2)>>
    /\ vpc = "idle"
    /\ passes = 0
    /\ model_outputs = {"pred"}
    /\ news_embeds = "none"
    /\ embeds_call = "not_called"
    /\ imp_set_cache = "none"
    /\ vi = 0
    /\ batches_run = 0
    /\ result_dict = EmptyDict
    /\ weight_dict = EmptyDict
    /\ metric_calls = <<>>
    /\ eval_result = EmptyDict
    /\ barrier_passed = FALSE
    /\ weight_file = NoFile
    /\ last_save = NoSave

\* ------------------------------------------------------------ BATMRSModel
\* A tensor is its shape and the layers applied to reach it, first to last.
Variants == {"base", "base_att", "bi_batm"}
NoTensor == [shape |-> <<>>, ops |-> <<>>]
Tensor(shape) == [shape |-> shape, ops |-> <<>>]
Apply(x, op, shape) == [shape |-> shape, ops |-> Append(x.ops, op)]

\* the layers __init__ builds for a variant (lines 13-24)
Layers(variant) ==
    {"final", "dropouts"} \cup
    (IF variant = "base" \/ variant = "base_att"
     THEN {"topic_layer", "user_encode_layer:GRU"}
     ELSE IF variant = "bi_batm"
     THEN {"topic_layer", "user_encode_layer:Sequential", "user_final"}
     ELSE {})

\* nn.GRU(E, E, batch_first=True, bidirectional=False)(y)[0]: (N, L, E) -> (N, L, E)
GRU(x) == Apply(x, "user_encode_layer:GRU", x.shape)
\* additive attention pooling, (N, L, E) -> (N, E)
user_att_layer(x) == Apply(x, "user_att_layer", <<x.shape[1], x.shape[3]>>)
\* Sequential(Linear(E, topic_dim), Tanh, Linear(topic_dim, H))(y).transpose(1, 2):
\* (N, L, E) -> (N, H, L)
UserTopicWeight(x, heads) ==
    Apply(x, "user_encode_layer:Sequential", <<x.shape[1], heads, x.shape[2]>>)
\* self.user_final(torch.matmul(user_weight, y)): (N, H, L) x (N, L, E) -> (N, H, E)
UserFinal(w, x) ==
    Apply(Apply(w, "matmul", <<w.shape[1], w.shape[2], x.shape[3]>>),
          "user_final", <<w.shape[1], w.shape[2], x.shape[3]>>)

\* the state of a model on which user_encoder is not running
ModelIdle ==
    /\ variant_name = "base"
    /\ head_num = 1
    /\ history_news = Tensor(<<1, 1, 1>>)
    /\ mpc = "idle"
    /\ y = NoTensor
    /\ user_vector = NoTensor

\* ------------------------------------------- _valid_epoch on several processes
Procs == 1..num_processes
\* self.accelerator.is_main_process: the process of index 0, here the first
IsMainProcess(p) == p = 1
\* the loader prepared by the accelerator hands the batches out in turn:
\* batch k (0-based) of process p is batch k * N + (p - 1) of the loader
ShardBatchIndex(p, k, n) == k * n + (p - 1)
ShardBatches(p, set, bs, n) == (NumBatches(set, bs) + n - p) \div n

\* gather_dict over the mappings the processes handed in: their union
GatherAll(buf) ==
    [i \in UNION {DOMAIN buf[q] : q \in DOMAIN buf} |->
        buf[CHOOSE q \in DOMAIN buf : i \in DOMAIN buf[q]][i]]

\* line 150 with the save open to every process
SaveAllowed_AnyProcess(p, weight) == weight
\* line 150: if return_weight and self.accelerator.is_main_process
SaveAllowed(p, weight) == weight /\ IsMainProcess(p)

\* the state when no multi-process run is under way
DistIdle ==
    /\ num_processes = 1
    /\ ppc = [p \in {1} |-> "idle"]
    /\ p_vi = [p \in {1} |-> 0]
    /\ p_result_dict = [p \in {1} |-> EmptyDict]
    /\ p_weight_dict = [p \in {1} |-> EmptyDict]
    /\ p_eval_result = [p \in {1} |-> EmptyDict]
    /\ gather_buf = [p \in {1} |-> EmptyDict]
    /\ topic_done = [p \in {1} |-> FALSE]
    /\ dump_file = NoFile
    /\ file_ops = <<>>

\* ------------------------------------------------------------ _train_epoch
InitTrain ==
    /\ epoch \in 1..2
    /\ length \in Lengths
    /\ valid_interval \in Intervals
    /\ len_epoch \in (1..(MaxLen + 1)) \cup {length}
    /\ entropy_constraint \in BOOLEAN
    /\ topic_variant \in TopicVariants
    /\ lr_scheduler \in BOOLEAN
    /\ pc = "start"
    /\ batch_idx = 0
    /\ model_mode \in {"train", "eval"}
    /\ train_metrics \in 0..1
    /\ writer_step = 0
    /\ backward_loss = {}
    /\ forward_mode = "none"
    /\ opt_steps = 0
    /\ lr_steps = 0
    /\ valid_calls = <<>>
    /\ monitor_calls = <<>>
    /\ ret = NoLog
    /\ ValidIdle
    /\ ModelIdle
    /\ DistIdle

\* lines 49-52: model.train(), train_metrics.reset(), length, enumerate
TrainEpochStart ==
    /\ pc = "start"
    /\ model_mode' = "train"
    /\ train_metrics' = 0
    /\ batch_idx' = 0
    /\ pc' = "loop"
    /\ UNCHANGED <<cfgVars, validSide, forward_mode, writer_step, backward_loss, opt_steps, lr_steps,
                   valid_calls, monitor_calls, ret>>

\* lines 54-74: one batch: forward, loss, backward, optimizer step, record
TrainBatch ==
    /\ pc = "loop"
    /\ batch_idx < length
    /\ forward_mode' = model_mode
    /\ backward_loss' = LossTerms(entropy_constraint, topic_variant)
    /\ opt_steps' = opt_steps + 1
    /\ writer_step' = (epoch - 1) * len_epoch + batch_idx
    /\ train_metrics' = train_metrics + 1
    /\ pc' = "check"
    /\ UNCHANGED <<cfgVars, validSide, batch_idx, model_mode, lr_steps, valid_calls,
                   monitor_calls, ret>>

\* lines 75-76: break
EarlyStop ==
    /\ pc = "check"
    /\ EarlyStopReached(batch_idx, len_epoch)
    /\ pc' = "after_loop"
    /\ UNCHANGED <<cfgVars, validSide, forward_mode, batch_idx, model_mode, train_metrics, writer_step,
                   backward_loss, opt_steps, lr_steps, valid_calls, monitor_calls, ret>>

\* lines 77-78: the interval validation, then the next batch
IntervalValidation ==
    /\ pc = "check"
    /\ ~EarlyStopReached(batch_idx, len_epoch)
    /\ IntervalReached(batch_idx, length, valid_interval)
    /\ \E ok \in BOOLEAN : _validation(batch_idx, TRUE, ok, "loop", "interval")
    /\ batch_idx' = batch_idx + 1
    /\ UNCHANGED <<cfgVars, validSide, forward_mode, writer_step, backward_loss, opt_steps, lr_steps, ret>>

\* line 77 false: straight to the next batch
NextBatch ==
    /\ pc = "check"
    /\ ~EarlyStopReached(batch_idx, len_epoch)
    /\ ~IntervalReached(batch_idx, length, valid_interval)
    /\ batch_idx' = batch_idx + 1
    /\ pc' = "loop"
    /\ UNCHANGED <<cfgVars, validSide, forward_mode, model_mode, train_metrics, writer_step, backward_loss,
                   opt_steps, lr_steps, valid_calls, monitor_calls, ret>>

\* line 54: the loader is exhausted
LoaderExhausted ==
    /\ pc = "loop"
    /\ batch_idx >= length
    /\ pc' = "after_loop"
    /\ UNCHANGED <<cfgVars, validSide, forward_mode, batch_idx, model_mode, train_metrics, writer_step,
                   backward_loss, opt_steps, lr_steps, valid_calls, monitor_calls, ret>>

\* SchedulerStep without the "is not None" test
SchedulerStep_Always ==
    /\ pc = "after_loop"
    /\ lr_steps' = lr_steps + 1
    /\ pc' = "final"
    /\ UNCHANGED <<cfgVars, validSide, forward_mode, batch_idx, model_mode, train_metrics, writer_step,
                   backward_loss, opt_steps, valid_calls, monitor_calls, ret>>

\* lines 79-80: if self.lr_scheduler is not None: self.lr_scheduler.step()
SchedulerStep ==
    /\ pc = "after_loop"
    /\ lr_steps' = IF lr_scheduler THEN lr_steps + 1 ELSE lr_steps
    /\ pc' = "final"
    /\ UNCHANGED <<cfgVars, validSide, forward_mode, batch_idx, model_mode, train_metrics, writer_step,
                   backward_loss, opt_steps, valid_calls, monitor_calls, ret>>

\* FinalValidation with do_monitor left at its default
FinalValidation_Monitored ==
    /\ pc = "final"
    /\ \E ok \in BOOLEAN :
         /\ _validation(length, TRUE, ok, "returned", "end")
         /\ ret' = IF ok THEN ValidationLog(epoch, length, Len(valid_calls) + 1)
                         ELSE ret
    /\ UNCHANGED <<cfgVars, validSide, forward_mode, batch_idx, writer_step, backward_loss, opt_steps, lr_steps>>

\* line 81: return self._validation(epoch, length, False)
FinalValidation ==
    /\ pc = "final"
    /\ \E ok \in BOOLEAN :
         /\ _validation(length, FALSE, ok, "returned", "end")
         /\ ret' = IF ok THEN ValidationLog(epoch, length, Len(valid_calls) + 1)
                         ELSE ret
    /\ UNCHANGED <<cfgVars, validSide, forward_mode, batch_idx, writer_step, backward_loss, opt_steps, lr_steps>>

NextTrain ==
    \/ TrainEpochStart
    \/ TrainBatch
    \/ EarlyStop
    \/ IntervalValidation
    \/ NextBatch
    \/ LoaderExhausted
    \/ SchedulerStep
    \/ FinalValidation

SpecTrain == InitTrain /\ [][NextTrain]_vars

\* ------------------------------------------------------------ _valid_epoch
\* the state of a trainer whose _train_epoch is not running
TrainIdle ==
    /\ epoch = 1
    /\ length = 1
    /\ valid_interval = <<1, 10>>
    /\ len_epoch = 1
    /\ lr_scheduler = FALSE
    /\ pc = "start"
    /\ batch_idx = 0
    /\ train_metrics = 0
    /\ writer_step = 0
    /\ backward_loss = {}
    /\ forward_mode = "none"
    /\ opt_steps = 0
    /\ lr_steps = 0
    /\ valid_calls = <<>>
    /\ monitor_calls = <<>>
    /\ ret = NoLog

InitValid ==
    /\ TrainIdle
    /\ ModelIdle
    /\ DistIdle
    /\ entropy_constraint \in BOOLEAN
    /\ topic_variant \in TopicVariants
    /\ model_mode = "train"
    /\ valid_method \in ValidMethods
    /\ return_weight \in BOOLEAN
    /\ saved_weight_num \in 0..MaxSaved
    /\ impression_bs \in 1..MaxBs
    /\ topic_eval \in BOOLEAN
    /\ is_main_process \in BOOLEAN
    /\ pad_extra \in PadExtras
    /\ valid_set \in ValidSets
    /\ vpc = "idle"
    /\ passes = 0
    /\ model_outputs = {"pred"}
    /\ news_embeds = "none"
    /\ embeds_call = "not_called"
    /\ imp_set_cache = "none"
    /\ vi = 0
    /\ batches_run = 0
    /\ result_dict = EmptyDict
    /\ weight_dict = EmptyDict
    /\ metric_calls = <<>>
    /\ eval_result = EmptyDict
    /\ barrier_passed = FALSE
    /\ weight_file = NoFile
    /\ last_save = NoSave

\* the model as trained when the running pass started
ModelVersion == passes + 1

\* lines 88-101: result_dict = {}, the model (self.model or the one passed in),
\* model.eval(), weight_dict = defaultdict, the configuration
ValidEpochStart ==
    /\ vpc = "idle"
    /\ passes < MaxPasses
    /\ \E outs \in OutputSets : model_outputs' = outs
    /\ model_mode' = model_eval
    /\ result_dict' = EmptyDict
    /\ weight_dict' = EmptyDict
    /\ news_embeds' = "none"
    /\ embeds_call' = "not_called"
    /\ imp_set_cache' = "none"
    /\ vi' = 0
    /\ batches_run' = 0
    /\ metric_calls' = <<>>
    /\ eval_result' = EmptyDict
    /\ barrier_passed' = FALSE
    /\ vpc' = "mode"
    /\ UNCHANGED <<trainSide, entropy_constraint, topic_variant, vcfgVars, passes,
                   weight_file, last_save>>

\* lines 103-107, 110-114: the fast branch: get_news_embeds is called and
\* returns or raises; a caught exception leaves news_embeds None; then the
\* impression set and its loader are built
FastEvaluation ==
    /\ vpc = "mode"
    /\ FastEligible(valid_method, return_weight, entropy_constraint, topic_variant)
    /\ \E outcome \in {"ok", "KeyError", "RuntimeError"} :
         /\ embeds_call' = outcome
         /\ IF outcome = "ok"
            THEN /\ news_embeds' = "cached"
                 /\ imp_set_cache' = "cached"
                 /\ vpc' = "loop"
            ELSE IF Caught(outcome)
            THEN /\ news_embeds' = "none"
                 /\ imp_set_cache' = "none"
                 /\ vpc' = "loop"
            ELSE /\ news_embeds' = news_embeds
                 /\ imp_set_cache' = imp_set_cache
                 /\ vpc' = "raised"
    /\ vi' = 0
    /\ UNCHANGED <<trainSide, entropy_constraint, topic_variant, model_mode, vcfgVars,
                   passes, model_outputs, batches_run, result_dict, weight_dict,
                   metric_calls, eval_result, barrier_passed, weight_file, last_save>>

\* lines 108-109, 112-114: the else branch: news_embeds = None
SlowEvaluation ==
    /\ vpc = "mode"
    /\ ~FastEligible(valid_method, return_weight, entropy_constraint, topic_variant)
    /\ news_embeds' = "none"
    /\ imp_set_cache' = "none"
    /\ vi' = 0
    /\ vpc' = "loop"
    /\ UNCHANGED <<trainSide, entropy_constraint, topic_variant, model_mode, vcfgVars,
                   passes, model_outputs, embeds_call, batches_run, result_dict,
                   weight_dict, metric_calls, eval_result, barrier_passed,
                   weight_file, last_save>>

\* lines 115-143: one validation batch: the forward pass, the metrics of each
\* impression on its truncated arrays, the weight entries, the break
ValidBatch ==
    /\ vpc = "loop"
    /\ vi < NumBatches(valid_set, impression_bs)
    /\ LET batch == BatchOf(valid_set, impression_bs, vi)
           cwidth == CanWidth(batch, pad_extra)
           hwidth == HisWidth(batch, pad_extra)
       IN  /\ batches_run' = batches_run + 1
           /\ metric_calls' = metric_calls \o
                  [k \in 1..Len(batch) |-> MetricArgs(batch[k], cwidth, ModelVersion)]
           /\ result_dict' = StoreResults(result_dict, batch, cwidth, ModelVersion)
           /\ weight_dict' = IF return_weight
                             THEN AppendBatch(weight_dict, batch, model_outputs,
                                              cwidth, hwidth, ModelVersion)
                             ELSE weight_dict
    /\ IF BreakReached(vi, saved_weight_num, return_weight)
       THEN vpc' = "gather" /\ vi' = vi
       ELSE vpc' = "loop" /\ vi' = vi + 1
    /\ UNCHANGED <<trainSide, entropy_constraint, topic_variant, model_mode, vcfgVars,
                   passes, model_outputs, news_embeds, embeds_call, imp_set_cache,
                   eval_result, barrier_passed, weight_file, last_save>>

\* line 115: the validation loader is exhausted
ValidLoaderExhausted ==
    /\ vpc = "loop"
    /\ vi >= NumBatches(valid_set, impression_bs)
    /\ vpc' = "gather"
    /\ UNCHANGED <<trainSide, entropy_constraint, topic_variant, model_mode, vcfgVars,
                   passes, model_outputs, news_embeds, embeds_call, imp_set_cache, vi,
                   batches_run, result_dict, weight_dict, metric_calls, eval_result,
                   barrier_passed, weight_file, last_save>>

\* lines 144-148: gather, average, the topic evaluation merged into the log
\* and the barrier
GatherAndAverage ==
    /\ vpc = "gather"
    /\ result_dict' = gather_dict(result_dict)
    /\ eval_result' =
          LET avg == Average(gather_dict(result_dict)) IN
          IF topic_eval
          THEN [k \in (DOMAIN avg) \cup {"topic_evaluation"} |->
                   IF k = "topic_evaluation" THEN ModelVersion ELSE avg[k]]
          ELSE avg
    /\ barrier_passed' = topic_eval
    /\ vpc' = "save"
    /\ UNCHANGED <<trainSide, entropy_constraint, topic_variant, model_mode, vcfgVars,
                   passes, model_outputs, news_embeds, embeds_call, imp_set_cache, vi,
                   batches_run, weight_dict, metric_calls, weight_file, last_save>>

\* SaveWeights without the weight_path.exists() test: torch.load of a missing
\* file raises
SaveWeights_NoExistsCheck ==
    /\ vpc = "save"
    /\ IF return_weight /\ is_main_process
       THEN IF weight_file.exists
                 /\ DOMAIN weight_dict \subseteq DOMAIN weight_file.content
            THEN /\ weight_dict' = MergeWeights(weight_dict, weight_file.content)
                 /\ weight_file' = [exists |-> TRUE,
                                    content |-> MergeWeights(weight_dict,
                                                             weight_file.content)]
                 /\ last_save' = [merged |-> TRUE, old |-> weight_file.content,
                                  new |-> weight_dict]
                 /\ vpc' = "idle"
                 /\ passes' = passes + 1
            ELSE /\ vpc' = "raised"
                 /\ UNCHANGED <<weight_dict, weight_file, last_save, passes>>
       ELSE /\ vpc' = "idle"
            /\ passes' = passes + 1
            /\ UNCHANGED <<weight_dict, weight_file, last_save>>
    /\ UNCHANGED <<trainSide, entropy_constraint, topic_variant, model_mode, vcfgVars,
                   model_outputs, news_embeds, embeds_call, imp_set_cache, vi,
                   batches_run, result_dict, metric_calls, eval_result, barrier_passed>>

\* lines 150-160: on the main process with return_weight: read the old file
\* when it exists, extend every list of weight_dict by the old one (a key the
\* old file lacks raises KeyError), write; then return eval_result
SaveWeights ==
    /\ vpc = "save"
    /\ IF return_weight /\ is_main_process
       THEN IF weight_file.exists
            THEN IF DOMAIN weight_dict \subseteq DOMAIN weight_file.content
                 THEN /\ weight_dict' = MergeWeights(weight_dict, weight_file.content)
                      /\ weight_file' = [exists |-> TRUE,
                                         content |-> MergeWeights(weight_dict,
                                                                  weight_file.content)]
                      /\ last_save' = [merged |-> TRUE, old |-> weight_file.content,
                                       new |-> weight_dict]
                      /\ vpc' = "idle"
                      /\ passes' = passes + 1
                 ELSE /\ vpc' = "raised"
                      /\ UNCHANGED <<weight_dict, weight_file, last_save, passes>>
            ELSE /\ weight_file' = [exists |-> TRUE, content |-> weight_dict]
                 /\ last_save' = [merged |-> FALSE, old |-> EmptyDict,
                                  new |-> weight_dict]
                 /\ vpc' = "idle"
                 /\ passes' = passes + 1
                 /\ UNCHANGED weight_dict
       ELSE /\ vpc' = "idle"
            /\ passes' = passes + 1
            /\ UNCHANGED <<weight_dict, weight_file, last_save>>
    /\ UNCHANGED <<trainSide, entropy_constraint, topic_variant, model_mode, vcfgVars,
                   model_outputs, news_embeds, embeds_call, imp_set_cache, vi,
                   batches_run, result_dict, metric_calls, eval_result, barrier_passed>>

NextValid ==
    \/ ValidEpochStart
    \/ FastEvaluation
    \/ SlowEvaluation
    \/ ValidBatch
    \/ ValidLoaderExhausted
    \/ GatherAndAverage
    \/ SaveWeights

SpecValid == InitValid /\ [][NextValid]_vars

\* ------------------------------------------------ BATMRSModel.user_encoder
InitModel ==
    /\ TrainIdle
    /\ ValidIdle
    /\ DistIdle
    /\ entropy_constraint = FALSE
    /\ topic_variant = "base"
    /\ model_mode = "train"
    /\ variant_name \in Variants
    /\ head_num \in 1..MaxDim
    /\ history_news \in {Tensor(<<n, l, e>>) : n \in 1..MaxDim, l \in 1..MaxHist,
                                               e \in 1..MaxDim}
    /\ mpc = "idle"
    /\ y = NoTensor
    /\ user_vector = NoTensor

notModel == <<cfgVars, trainVars, vcfgVars, validVars, distVars>>

\* line 43: y = input_feat["history_news"]
UserEncoderCall ==
    /\ mpc = "idle"
    /\ y' = history_news
    /\ mpc' = "dispatch"
    /\ UNCHANGED <<notModel, variant_name, head_num, history_news, user_vector>>

\* lines 44-46: "base": the recurrent encoder, then the attention pooling
BaseBranch ==
    /\ mpc = "dispatch"
    /\ variant_name = "base"
    /\ y' = user_att_layer(GRU(y))
    /\ mpc' = "return"
    /\ UNCHANGED <<notModel, variant_name, head_num, history_news, user_vector>>

\* lines 47-52: "bi_batm": the topic-style projection, the weighted sum through
\* user_final, then the attention pooling
BiBatmBranch ==
    /\ mpc = "dispatch"
    /\ variant_name = "bi_batm"
    /\ y' = user_att_layer(UserFinal(UserTopicWeight(y, head_num), y))
    /\ mpc' = "return"
    /\ UNCHANGED <<notModel, variant_name, head_num, history_news, user_vector>>

\* BaseAttBranch running the recurrent encoder first, as the "base" branch does
BaseAttBranch_WithRecurrent ==
    /\ mpc = "dispatch"
    /\ variant_name = "base_att"
    /\ y' = user_att_layer(GRU(y))
    /\ mpc' = "return"
    /\ UNCHANGED <<notModel, variant_name, head_num, history_news, user_vector>>

\* lines 53-54: "base_att": the attention pooling alone
BaseAttBranch ==
    /\ mpc = "dispatch"
    /\ variant_name = "base_att"
    /\ y' = user_att_layer(y)
    /\ mpc' = "return"
    /\ UNCHANGED <<notModel, variant_name, head_num, history_news, user_vector>>

\* line 55: return y
UserEncoderReturn ==
    /\ mpc = "return"
    /\ user_vector' = y
    /\ mpc' = "done"
    /\ UNCHANGED <<notModel, variant_name, head_num, history_news, y>>

NextModel ==
    \/ UserEncoderCall
    \/ BaseBranch
    \/ BiBatmBranch
    \/ BaseAttBranch
    \/ UserEncoderReturn

SpecModel == InitModel /\ [][NextModel]_vars

\* ------------------------------------------- _valid_epoch on several processes
\* the validation sets of the multi-process runs: index = place in the dataset
DistValidSets ==
    {[i \in 1..n |-> Impression(i, IF i % 2 = 0 THEN 3 ELSE 2)] :
        n \in 1..(MaxImp * MaxProcs)}

\* the weight file a former round left: the dump of the first batch
OldDump(set, bs) ==
    LET batch == BatchOf(set, bs, 0) IN
    [exists |-> TRUE,
     content |-> AppendBatch(EmptyDict, batch, {"pred"}, CanWidth(batch, 0),
                             HisWidth(batch, 0), 0)]

\* every process has run lines 88-114 (slow evaluation) and stands at the loop
InitDist ==
    /\ TrainIdle
    /\ ModelIdle
    /\ entropy_constraint = FALSE
    /\ topic_variant = "base"
    /\ model_mode = model_eval
    /\ valid_method = "slow_evaluation"
    /\ return_weight \in BOOLEAN
    /\ saved_weight_num \in 0..MaxSaved
    /\ impression_bs \in 1..MaxBs
    /\ topic_eval \in BOOLEAN
    /\ is_main_process = TRUE
    /\ pad_extra = 0
    /\ valid_set \in DistValidSets
    /\ vpc = "idle"
    /\ passes = 0
    /\ model_outputs = {"pred"}
    /\ news_embeds = "none"
    /\ embeds_call = "not_called"
    /\ imp_set_cache = "none"
    /\ vi = 0
    /\ batches_run = 0
    /\ result_dict = EmptyDict
    /\ weight_dict = EmptyDict
    /\ metric_calls = <<>>
    /\ eval_result = EmptyDict
    /\ barrier_passed = FALSE
    /\ weight_file = NoFile
    /\ last_save = NoSave
    /\ num_processes \in 1..MaxProcs
    /\ ppc = [p \in Procs |-> "loop"]
    /\ p_vi = [p \in Procs |-> 0]
    /\ p_result_dict = [p \in Procs |-> EmptyDict]
    /\ p_weight_dict = [p \in Procs |-> EmptyDict]
    /\ p_eval_result = [p \in Procs |-> EmptyDict]
    /\ gather_buf = [p \in Procs |-> EmptyDict]
    /\ topic_done = [p \in Procs |-> FALSE]
    /\ dump_file \in {NoFile, OldDump(valid_set, impression_bs)}
    /\ file_ops = <<>>

notDist == <<cfgVars, trainVars, vcfgVars, validVars, modelVars, num_processes>>

\* lines 115-143 on process p: one batch of its shard; at the break the loop
\* ends and result_dict goes to gather_dict
DistBatch(p) ==
    /\ ppc[p] = "loop"
    /\ p_vi[p] < ShardBatches(p, valid_set, impression_bs, num_processes)
    /\ LET batch == BatchOf(valid_set, impression_bs,
                            ShardBatchIndex(p, p_vi[p], num_processes))
           cwidth == CanWidth(batch, pad_extra)
           hwidth == HisWidth(batch, pad_extra)
           rd == StoreResults(p_result_dict[p], batch, cwidth, 1)
       IN  /\ p_result_dict' = [p_result_dict EXCEPT ![p] = rd]
           /\ p_weight_dict' =
                 IF return_weight
                 THEN [p_weight_dict EXCEPT ![p] =
                          AppendBatch(p_weight_dict[p], batch, model_outputs,
                                      cwidth, hwidth, 1)]
                 ELSE p_weight_dict
           /\ IF BreakReached(p_vi[p], saved_weight_num, return_weight)
              THEN /\ ppc' = [ppc EXCEPT ![p] = "gather"]
                   /\ gather_buf' = [gather_buf EXCEPT ![p] = rd]
                   /\ p_vi' = p_vi
              ELSE /\ p_vi' = [p_vi EXCEPT ![p] = p_vi[p] + 1]
                   /\ UNCHANGED <<ppc, gather_buf>>
    /\ UNCHANGED <<notDist, p_eval_result, topic_done, dump_file, file_ops>>

\* line 115 on process p: its loader is exhausted; result_dict goes to
\* gather_dict
DistLoaderExhausted(p) ==
    /\ ppc[p] = "loop"
    /\ p_vi[p] >= ShardBatches(p, valid_set, impression_bs, num_processes)
    /\ ppc' = [ppc EXCEPT ![p] = "gather"]
    /\ gather_buf' = [gather_buf EXCEPT ![p] = p_result_dict[p]]
    /\ UNCHANGED <<notDist, p_vi, p_result_dict, p_weight_dict, p_eval_result,
                   topic_done, dump_file, file_ops>>

\* DistGatherAverage averaging the mapping of the process itself
DistGatherAverage_Local(p) ==
    /\ ppc[p] = "gather"
    /\ \A q \in Procs : ppc[q] # "loop"
    /\ p_eval_result' = [p_eval_result EXCEPT ![p] = Average(p_result_dict[p])]
    /\ ppc' = [ppc EXCEPT ![p] = IF topic_eval THEN "topic" ELSE "save"]
    /\ UNCHANGED <<notDist, p_vi, p_result_dict, p_weight_dict, gather_buf,
                   topic_done, dump_file, file_ops>>

\* lines 144-146 on process p: gather_dict returns once every process has
\* handed its mapping in; the average of the gathered mapping
DistGatherAverage(p) ==
    /\ ppc[p] = "gather"
    /\ \A q \in Procs : ppc[q] # "loop"
    /\ p_result_dict' = [p_result_dict EXCEPT ![p] = GatherAll(gather_buf)]
    /\ p_eval_result' = [p_eval_result EXCEPT ![p] = Average(GatherAll(gather_buf))]
    /\ ppc' = [ppc EXCEPT ![p] = IF topic_eval THEN "topic" ELSE "save"]
    /\ UNCHANGED <<notDist, p_vi, p_weight_dict, gather_buf, topic_done, dump_file,
                   file_ops>>

\* DistTopicEvaluation without the call of line 148
DistTopicEvaluation_NoBarrier(p) ==
    /\ ppc[p] = "topic"
    /\ p_eval_result' =
          [p_eval_result EXCEPT ![p] =
              [k \in (DOMAIN p_eval_result[p]) \cup {"topic_evaluation"} |->
                  IF k = "topic_evaluation" THEN 1 ELSE p_eval_result[p][k]]]
    /\ topic_done' = [topic_done EXCEPT ![p] = TRUE]
    /\ ppc' = [ppc EXCEPT ![p] = "save"]
    /\ UNCHANGED <<notDist, p_vi, p_result_dict, p_weight_dict, gather_buf,
                   dump_file, file_ops>>

\* lines 146-148 on process p: the topic evaluation merged into the log; the
\* process then enters wait_for_everyone
DistTopicEvaluation(p) ==
    /\ ppc[p] = "topic"
    /\ p_eval_result' =
          [p_eval_result EXCEPT ![p] =
              [k \in (DOMAIN p_eval_result[p]) \cup {"topic_evaluation"} |->
                  IF k = "topic_evaluation" THEN 1 ELSE p_eval_result[p][k]]]
    /\ topic_done' = [topic_done EXCEPT ![p] = TRUE]
    /\ ppc' = [ppc EXCEPT ![p] = "barrier"]
    /\ UNCHANGED <<notDist, p_vi, p_result_dict, p_weight_dict, gather_buf,
                   dump_file, file_ops>>

\* line 148 on process p: wait_for_everyone returns once every process has
\* entered it
DistWaitForEveryone(p) ==
    /\ ppc[p] = "barrier"
    /\ \A q \in Procs : ppc[q] \in {"barrier", "save", "write", "returned", "raised"}
    /\ ppc' = [ppc EXCEPT ![p] = "save"]
    /\ UNCHANGED <<notDist, p_vi, p_result_dict, p_weight_dict, p_eval_result,
                   gather_buf, topic_done, dump_file, file_ops>>

\* lines 150-157 on process p: the test of line 150; where it holds, the old
\* file is read when it exists and every list of weight_dict extended by the
\* old one (a key the old file lacks raises KeyError); where it fails, line 160
DistLoadOld(p) ==
    /\ ppc[p] = "save"
    /\ IF SaveAllowed(p, return_weight)
       THEN IF dump_file.exists
            THEN IF DOMAIN p_weight_dict[p] \subseteq DOMAIN dump_file.content
                 THEN /\ p_weight_dict' =
                            [p_weight_dict EXCEPT ![p] =
                                MergeWeights(p_weight_dict[p], dump_file.content)]
                      /\ file_ops' = Append(file_ops, [proc |-> p, op |-> "load"])
                      /\ ppc' = [ppc EXCEPT ![p] = "write"]
                 ELSE /\ file_ops' = Append(file_ops, [proc |-> p, op |-> "load"])
                      /\ ppc' = [ppc EXCEPT ![p] = "raised"]
                      /\ UNCHANGED p_weight_dict
            ELSE /\ ppc' = [ppc EXCEPT ![p] = "write"]
                 /\ UNCHANGED <<p_weight_dict, file_ops>>
       ELSE /\ ppc' = [ppc EXCEPT ![p] = "returned"]
            /\ UNCHANGED <<p_weight_dict, file_ops>>
    /\ UNCHANGED <<notDist, p_vi, p_result_dict, p_eval_result, gather_buf,
                   topic_done, dump_file>>

\* lines 158-160 on process p: torch.save(dict(weight_dict), weight_path), then
\* return eval_result
DistSave(p) ==
    /\ ppc[p] = "write"
    /\ dump_file' = [exists |-> TRUE, content |-> p_weight_dict[p]]
    /\ file_ops' = Append(file_ops, [proc |-> p, op |-> "save"])
    /\ ppc' = [ppc EXCEPT ![p] = "returned"]
    /\ UNCHANGED <<notDist, p_vi, p_result_dict, p_weight_dict, p_eval_result,
                   gather_buf, topic_done>>

NextDist ==
    \/ \E p \in Procs : DistBatch(p)
    \/ \E p \in Procs : DistLoaderExhausted(p)
    \/ \E p \in Procs : DistGatherAverage(p)
    \/ \E p \in Procs : DistTopicEvaluation(p)
    \/ \E p \in Procs : DistWaitForEveryone(p)
    \/ \E p \in Procs : DistLoadOld(p)
    \/ \E p \in Procs : DistSave(p)

SpecDist == InitDist /\ [][NextDist]_vars

\* ------------------------------------------------- claims on _train_epoch
NoEarlyStop == len_epoch >= length
IntervalStep == ceil(length, valid_interval)
IsIntervalCall(c) == c.site = "interval"
IntervalCalls == SelectSeq(valid_calls, IsIntervalCall)
\* batches whose whole loop body (lines 54-78) has run
BatchesCompleted == IF pc = "check" THEN opt_steps - 1 ELSE opt_steps
IntervalPoints(done) == {k \in 1..done : k % IntervalStep = 0 /\ k < length}
AtSteps(calls) == [i \in 1..Len(calls) |-> calls[i].at_step]

\* C1: with no early stop, the interval validations (with monitor) are exactly
\* the ones after the k-th processed batch (k = batch_idx + 1) for the k < length
\* that are multiples of ceil(length * valid_interval), in order, none before the
\* first batch and none after the last; a returned epoch has exactly one more
\* validation, the end-of-epoch one at step length.  For length 100 and
\* valid_interval 0.2 the validations are after batches 20, 40, 60, 80 and then
\* the end-of-epoch one after batch 100.
C1_IntervalValidationPoints ==
    NoEarlyStop =>
        /\ \A i \in 1..Len(IntervalCalls) :
              /\ IntervalCalls[i].at_step = i * IntervalStep
              /\ IntervalCalls[i].at_step \in 1..(length - 1)
              /\ IntervalCalls[i].log.step + 1 = IntervalCalls[i].at_step
              /\ IntervalCalls[i].monitor
        /\ Len(IntervalCalls) = Cardinality(IntervalPoints(BatchesCompleted))
        /\ pc = "returned" =>
              /\ Len(valid_calls) = Len(IntervalCalls) + 1
              /\ valid_calls[Len(valid_calls)].site = "end"
              /\ valid_calls[Len(valid_calls)].at_step = length
              /\ valid_calls[Len(valid_calls)].log.step = length
              /\ Len(IntervalCalls) = Cardinality(IntervalPoints(length))
        /\ (pc = "returned" /\ length = 100 /\ valid_interval = <<1, 5>>) =>
              AtSteps(valid_calls) = <<20, 40, 60, 80, 100>>

C1_Witness ==
    /\ pc = "returned"
    /\ NoEarlyStop
    /\ length = 100
    /\ valid_interval = <<1, 5>>
    /\ Len(IntervalCalls) = 4
    /\ Len(valid_calls) = 5

\* C2: a call of _train_epoch that returns, whether its loop ended by exhausting
\* the loader or by the early-stop break, ran exactly one end-of-epoch validation,
\* after the last optimizer step; that validation did not call the monitor, every
\* interval validation did, and the returned value is the end-of-epoch
\* validation's log.
C2_EndOfEpochValidation ==
    pc = "returned" =>
        LET n == Len(valid_calls) IN
        /\ n >= 1
        /\ valid_calls[n].site = "end"
        /\ ~valid_calls[n].monitor
        /\ valid_calls[n].at_step = opt_steps
        /\ \A i \in 1..(n - 1) :
              /\ valid_calls[i].site = "interval"
              /\ valid_calls[i].monitor
              /\ monitor_calls[i] = valid_calls[i].log
        /\ Len(monitor_calls) = n - 1
        /\ ret = valid_calls[n].log

C2_Witness ==
    /\ pc = "returned"
    /\ len_epoch < length
    /\ opt_steps < length
    /\ Len(valid_calls) >= 2

C8_AtMostLenEpochSteps ==
    len_epoch < length => opt_steps <= len_epoch

\* ------------------------------------------------- claims on _valid_epoch
AllIndices == {valid_set[k].impression_index : k \in 1..Len(valid_set)}
LoopOver == vpc \in {"gather", "save"}
Retained == IF "impression_index" \in DOMAIN weight_dict
            THEN Len(weight_dict["impression_index"]) ELSE 0

\* C3 (as claimed): with return_weight enabled, when the validation loop is over
\* every batch of the validation loader has been run and the result mapping has
\* one key per impression of the loader, whatever saved_weight_num is.
C3_AllBatchesEvaluated ==
    (return_weight /\ LoopOver) =>
        /\ batches_run = NumBatches(valid_set, impression_bs)
        /\ DOMAIN result_dict = AllIndices

\* C4 (as claimed): when get_news_embeds fails with KeyError or RuntimeError the
\* failure is not propagated: the cache is none and the pass goes on in slow mode.
C4_CacheFaultNotPropagated ==
    embeds_call \in {"KeyError", "RuntimeError"} =>
        /\ vpc # "raised"
        /\ news_embeds = "none"
        /\ imp_set_cache = "none"

C6_CacheIffFastEligible ==
    (vpc # "mode" /\ ~(vpc = "idle" /\ passes = 0)) =>
        LET eligible == /\ valid_method = "fast_evaluation"
                        /\ return_weight = FALSE
                        /\ entropy_constraint = FALSE
                        /\ topic_variant # "variational_topic"
        IN  /\ (embeds_call # "not_called") <=> eligible
            /\ ~eligible => (news_embeds = "none" /\ imp_set_cache = "none")
            /\ news_embeds = "cached" => embeds_call = "ok"

C6_Witness ==
    /\ vpc = "save"
    /\ embeds_call = "ok"
    /\ news_embeds = "cached"
    /\ imp_set_cache = "cached"
    /\ batches_run >= 1

\* C9: the label and the prediction array given to the metric functions for an
\* impression both have exactly the impression's candidate length and hold no
\* padded place, and the result mapping has one key per impression evaluated; a
\* batch of two impressions with candidate lengths 3 and 2 padded to width 4
\* gives arrays of lengths 3 and 2 and a result mapping of exactly 2 keys.
C9_TruncatedMetricArrays ==
    /\ \A c \in 1..Len(metric_calls) :
          LET call == metric_calls[c]
              imp == valid_set[call.index]
          IN  /\ Len(call.label) = imp.candidate_length
              /\ Len(call.pred) = imp.candidate_length
              /\ \A j \in 1..Len(call.label) : call.label[j] # -1
              /\ \A j \in 1..Len(call.pred) : call.pred[j] # -1
    /\ Cardinality(DOMAIN result_dict) = Len(metric_calls)
    /\ \A i \in DOMAIN result_dict : DOMAIN result_dict[i] = MetricFuncs

C9_Witness ==
    /\ Len(valid_set) = 2
    /\ valid_set[1].candidate_length = 3
    /\ valid_set[2].candidate_length = 2
    /\ impression_bs = 2
    /\ CanWidth(BatchOf(valid_set, impression_bs, 0), pad_extra) = 4
    /\ batches_run = 1
    /\ Len(metric_calls) = 2
    /\ Len(metric_calls[1].pred) = 3
    /\ Len(metric_calls[2].pred) = 2
    /\ Cardinality(DOMAIN result_dict) = 2

\* C10 (as claimed): with return_weight enabled, the number of impressions held in
\* the weight accumulator during a validation pass never exceeds saved_weight_num.
C10_RetainedWithinCap ==
    (return_weight /\ vpc \in {"loop", "gather", "save"}) =>
        Retained <= saved_weight_num

\* C13: on the main process with return_weight enabled and no weight-dump file
\* yet, the pass raises no error, and after its save the file exists and holds
\* exactly the entries the pass collected: its fields are the collected fields,
\* each with one entry per impression evaluated in the pass, in order.
C13_FirstSaveKeepsCollected ==
    /\ (return_weight /\ is_main_process /\ ~weight_file.exists) => vpc # "raised"
    /\ (vpc = "idle" /\ passes = 1 /\ return_weight /\ is_main_process) =>
          /\ weight_file.exists
          /\ ~last_save.merged
          /\ last_save.old = EmptyDict
          /\ DOMAIN weight_file.content =
                SavedItems \cup (model_outputs \cap {"candidate_weight", "topic_weight"})
          /\ \A name \in DOMAIN weight_file.content :
                Len(weight_file.content[name]) = Len(metric_calls)
          /\ \A k \in 1..Len(metric_calls) :
                /\ weight_file.content["impression_index"][k] = metric_calls[k].index
                /\ weight_file.content["label"][k] = metric_calls[k].label
                /\ weight_file.content["pred_score"][k] = metric_calls[k].pred

C13_Witness ==
    /\ vpc = "idle"
    /\ passes = 1
    /\ return_weight
    /\ is_main_process
    /\ weight_file.exists
    /\ ~last_save.merged
    /\ Len(weight_file.content["impression_index"]) = 2

\* C14: in a call of _train_epoch the learning-rate scheduler is stepped exactly
\* once when one is configured and never when none is, however many interval
\* validations ran and whether or not the loop stopped early; the step comes after
\* the last optimizer step (no step while the batch loop runs, none seen by an
\* interval validation) and before the end-of-epoch validation.
C14_SchedulerSteppedOnce ==
    LET due == IF lr_scheduler THEN 1 ELSE 0 IN
    /\ pc \in {"start", "loop", "check", "after_loop"} => lr_steps = 0
    /\ pc \in {"final", "returned"} => lr_steps = due
    /\ lr_steps <= due
    /\ \A i \in 1..Len(valid_calls) :
          /\ valid_calls[i].site = "interval" => valid_calls[i].at_lr = 0
          /\ valid_calls[i].site = "end" =>
                /\ valid_calls[i].at_lr = due
                /\ valid_calls[i].at_step = opt_steps

C14_Witness ==
    /\ pc = "returned"
    /\ lr_scheduler
    /\ lr_steps = 1
    /\ len_epoch < length
    /\ opt_steps < length
    /\ Len(valid_calls) >= 3

\* C17 (as claimed): the log _train_epoch returns holds the average training loss
\* of the epoch beside the validation metrics.
C17_ReturnedLogHasLoss ==
    pc = "returned" => "loss" \in DOMAIN ret

\* a pass aborted by the KeyError of line 157 (the only failure after a batch ran)
SaveFailed == vpc = "raised" /\ batches_run > 0
IsSuffix(old, new) ==
    /\ Len(old) <= Len(new)
    /\ SubSeq(new, Len(new) - Len(old) + 1, Len(new)) = old

\* C18 (as claimed): a save never loses saved data: every field the file held
\* before a merging save is still in the file after it with all its prior entries,
\* whatever fields the pass collected, and no save fails because the old and the
\* new field sets differ.
C18_SaveKeepsOldFields ==
    /\ ~SaveFailed
    /\ last_save.merged =>
          \A name \in DOMAIN last_save.old :
              /\ name \in DOMAIN weight_file.content
              /\ IsSuffix(last_save.old[name], weight_file.content[name])

\* C19: with return_weight enabled, during a validation pass every field of the
\* weight accumulator (the six saved items and each model output whose name holds
\* "weight") has one entry per impression processed so far, and entry j of every
\* field belongs to the j-th processed impression: its index, its metric results,
\* its truncated label, scores, candidate and history indices and weights.
C19_FieldsAligned ==
    (return_weight /\ vpc \in {"loop", "gather", "save"}) =>
        /\ DOMAIN weight_dict =
              IF metric_calls = <<>> THEN {}
              ELSE SavedItems \cup (model_outputs \cap {"candidate_weight", "topic_weight"})
        /\ \A name \in DOMAIN weight_dict : Len(weight_dict[name]) = Len(metric_calls)
        /\ \A j \in 1..Retained :
              LET i == weight_dict["impression_index"][j]
                  imp == valid_set[i]
              IN  /\ i = metric_calls[j].index
                  /\ weight_dict["results"][j] = result_dict[i]
                  /\ weight_dict["label"][j] = metric_calls[j].label
                  /\ weight_dict["pred_score"][j] = metric_calls[j].pred
                  /\ Len(weight_dict["candidate_index"][j]) = imp.candidate_length
                  /\ weight_dict["candidate_index"][j][1] = i * 10 + 1
                  /\ Len(weight_dict["history_index"][j]) = imp.history_length
                  /\ weight_dict["history_index"][j][1] = i * 10 + 6
                  /\ "candidate_weight" \in DOMAIN weight_dict =>
                        Len(weight_dict["candidate_weight"][j]) = imp.candidate_length
                  /\ "topic_weight" \in DOMAIN weight_dict =>
                        Len(weight_dict["topic_weight"][j]) = imp.history_length

C19_Witness ==
    /\ return_weight
    /\ vpc = "gather"
    /\ impression_bs = 2
    /\ Retained = 2
    /\ "candidate_weight" \in DOMAIN weight_dict
    /\ "topic_weight" \in DOMAIN weight_dict
    /\ valid_set[1].candidate_length # valid_set[2].candidate_length

\* C20: within an epoch every training forward pass runs with the model in
\* training mode and every validation forward pass with the model in evaluation
\* mode; a validation (interval or end-of-epoch) that returns leaves the model in
\* training mode and the running training metrics reset.
C20_ModesAlternate ==
    /\ opt_steps > 0 => forward_mode = "train"
    /\ \A i \in 1..Len(valid_calls) : valid_calls[i].eval_mode = "eval"
    /\ (valid_calls # <<>> /\ valid_calls[Len(valid_calls)].returned
          /\ valid_calls[Len(valid_calls)].at_step = opt_steps) =>
          /\ model_mode = "train"
          /\ train_metrics = 0

C20_Witness ==
    /\ pc = "check"
    /\ opt_steps >= 3
    /\ Len(valid_calls) = 2
    /\ valid_calls[1].returned
    /\ valid_calls[2].returned
    /\ valid_calls[2].at_step < opt_steps
    /\ forward_mode = "train"
    /\ train_metrics = 1

\* C16 (as amended): user_encoder of the "base" variant applies the
\* single-direction recurrent encoder to the history-news vectors and then the
\* additive-attention pooling; of the "base_att" variant it applies the
\* additive-attention pooling alone, directly to the history-news vectors, though
\* __init__ builds the recurrent encoder for both.  Either returns one vector per
\* user, of shape (N, E).
C16_BaseAttSkipsRecurrent ==
    (mpc = "done" /\ variant_name \in {"base", "base_att"}) =>
        /\ "user_encode_layer:GRU" \in Layers(variant_name)
        /\ user_vector.shape = <<history_news.shape[1], history_news.shape[3]>>
        /\ variant_name = "base" =>
              user_vector.ops = <<"user_encode_layer:GRU", "user_att_layer">>
        /\ variant_name = "base_att" => user_vector.ops = <<"user_att_layer">>

C16_Witness ==
    /\ mpc = "done"
    /\ variant_name = "base_att"
    /\ history_news.shape = <<2, 3, 2>>
    /\ user_vector.ops = <<"user_att_layer">>
    /\ user_vector.shape = <<2, 2>>

\* C16 (as claimed): for both "base" and "base_att", user_encoder applies the
\* recurrent encoder and then the additive-attention pooling, in that order.
C16_SameStages ==
    (mpc = "done" /\ variant_name \in {"base", "base_att"}) =>
        user_vector.ops = <<"user_encode_layer:GRU", "user_att_layer">>

\* ------------------------------------ claims on the multi-process _valid_epoch
FileUsers == {file_ops[k].proc : k \in 1..Len(file_ops)}
Writing == {p \in Procs : ppc[p] = "write"}
PastGather == {p \in Procs : ppc[p] \notin {"loop", "gather"}}
RECURSIVE SumSizes(_, _)
SumSizes(buf, n) == IF n = 0 THEN 0 ELSE Cardinality(DOMAIN buf[n]) + SumSizes(buf, n - 1)
WithoutTopic(log) == [k \in (DOMAIN log) \ {"topic_evaluation"} |-> log[k]]

\* C11: in a multi-process run, in every interleaving, only the primary process
\* loads or saves the weight file, and only when return_weight is set; no other
\* process is ever between its exists() test and its torch.save, so no two
\* processes write the file at once.
C11_OnlyPrimaryTouchesFile ==
    /\ \A p \in FileUsers : IsMainProcess(p) /\ return_weight
    /\ \A p \in Writing : IsMainProcess(p) /\ return_weight
    /\ Cardinality(Writing) <= 1
    /\ ~return_weight => dump_file \in {NoFile, OldDump(valid_set, impression_bs)}

C11_Witness ==
    /\ num_processes = MaxProcs
    /\ return_weight
    /\ ppc[MaxProcs] = "returned"
    /\ ppc[1] = "returned"
    /\ file_ops = <<[proc |-> 1, op |-> "load"], [proc |-> 1, op |-> "save"]>>
    /\ p_weight_dict[MaxProcs] # EmptyDict

\* C12: the mapping a process averages is the gathered one: with one process
\* its own mapping unchanged, with N processes on disjoint shards the union of
\* the mappings handed in, of size the sum of their sizes; so the processes
\* compute the same averages.
C12_AverageOfGathered ==
    \A p \in PastGather :
        /\ p_result_dict[p] = GatherAll(gather_buf)
        /\ Cardinality(DOMAIN p_result_dict[p]) = SumSizes(gather_buf, num_processes)
        /\ \A q \in Procs : \A i \in DOMAIN gather_buf[q] :
              p_result_dict[p][i] = gather_buf[q][i]
        /\ num_processes = 1 => p_result_dict[p] = gather_buf[p]
        /\ WithoutTopic(p_eval_result[p]) = Average(GatherAll(gather_buf))
        /\ \A q \in PastGather :
              WithoutTopic(p_eval_result[q]) = WithoutTopic(p_eval_result[p])

C12_Witness ==
    /\ num_processes = MaxProcs
    /\ PastGather = Procs
    /\ \A p \in Procs : gather_buf[p] # EmptyDict
    /\ gather_buf[1] # gather_buf[MaxProcs]
    /\ Average(gather_buf[1]) # Average(gather_buf[MaxProcs])
    /\ Cardinality(DOMAIN p_result_dict[1]) = Len(valid_set)
    /\ Len(valid_set) > MaxProcs

\* C15: with the topic evaluation configured, no process has returned from
\* _valid_epoch (or gone past line 148) while some process has not finished its
\* topic evaluation.
C15_BarrierAfterTopicEvaluation ==
    topic_eval =>
        \A p \in Procs :
            ppc[p] \in {"save", "write", "returned"} =>
                \A q \in Procs : topic_done[q] /\ "topic_evaluation" \in DOMAIN p_eval_result[q]

C15_Witness ==
    /\ topic_eval
    /\ num_processes = MaxProcs
    /\ ppc[MaxProcs] = "returned"
    /\ ppc[1] = "barrier"
    /\ \A q \in Procs : topic_done[q]

====
